---- MODULE Spec2Model ----
(***************************************************************************)
(* Model of final_proj.py: the JSON file cache (open_cache, save_cache),   *)
(* the cache key (construct_unique_key), the two get-or-fetch functions    *)
(* (zip_make_request_with_cache, yelp_make_request_with_cache), the two    *)
(* response parsers (get_zip_instance, format_nearby_places), the         *)
(* zipcodes table with its INSERT OR IGNORE statement, the Flask handlers  *)
(* index and results over Si507Proj.sqlite, and two processes sharing the  *)
(* cache file.                                                             *)
(*                                                                         *)
(* Python strings that are concatenated, sorted or lower-cased are         *)
(* sequences of one-character strings; JSON documents are functions from   *)
(* TLA+ strings (the keys) to values; a Python dict whose insertion order  *)
(* matters (params) is a sequence of <<name, value>> pairs.                *)
(***************************************************************************)
EXTENDS Integers, Sequences, FiniteSets, TLC

VARIABLES
    keyArgs,        \* construct_unique_key: the arguments of the last call
    keyOut,         \* construct_unique_key: the string it returned
    normOp,         \* which parser ran last (get_zip_instance, format_nearby_places)
    normIn,         \* its json_results argument
    normOut,        \* what it returned, or the exception it raised
    zipcodes,       \* rows of the "zipcodes" table
    firstUpsert,    \* history: zipcode -> the first row upserted for it
    lastInsert,     \* the row of the last insert_zip execution
    cacheFile,      \* content of final_cache.json
    cacheFile0,     \* history: content of final_cache.json at start
    transportLog,   \* history: one entry per requests.get call
    last,           \* the last get-or-fetch call: arguments, path, outcome
    tables,         \* Si507Proj.sqlite: the tables that exist (committed)
    handled,        \* the last request a Flask handler served, and how
    pc,             \* two processes: where each is in its get-or-fetch call
    loaded          \* two processes: each one's CACHE_DICT and fetched document

keyVars   == <<keyArgs, keyOut>>
normVars  == <<normOp, normIn, normOut>>
tableVars == <<zipcodes, firstUpsert, lastInsert>>
cacheVars == <<cacheFile, cacheFile0, transportLog, last>>
appVars   == <<tables, handled>>
raceVars  == <<pc, loaded>>
vars      == <<keyArgs, keyOut, normOp, normIn, normOut, zipcodes,
               firstUpsert, lastInsert, cacheFile, cacheFile0,
               transportLog, last, tables, handled, pc, loaded>>

(***************************************************************************)
(* Python strings                                                          *)
(***************************************************************************)

\* The characters the model uses, in code point order (Python compares
\* strings by code point).
AsciiOrder ==
    <<".", "/", "0", "1", "2", "3", "4", "5", "6", "7", "8", "9", ":",
      "K", "T", "_",
      "a", "b", "c", "d", "e", "f", "g", "h", "i", "j", "k", "l", "m",
      "n", "o", "p", "q", "r", "s", "t", "u", "v", "w", "x", "y", "z">>

Ord(c) == CHOOSE i \in 1..Len(AsciiOrder) : AsciiOrder[i] = c

\* a < b for Python strings: the first differing character decides, a
\* proper prefix is smaller.
RECURSIVE StrLess(_, _)
StrLess(a, b) ==
    IF b = <<>> THEN FALSE
    ELSE IF a = <<>> THEN TRUE
    ELSE IF Head(a) = Head(b) THEN StrLess(Tail(a), Tail(b))
    ELSE Ord(Head(a)) < Ord(Head(b))

\* str.lower() on one character and on a string.
LowerChar(c) ==
    CASE c = "K" -> "k"
      [] c = "T" -> "t"
      [] OTHER   -> c

Lower(s) == [i \in 1..Len(s) |-> LowerChar(s[i])]

DigitChar == <<"0", "1", "2", "3", "4", "5", "6", "7", "8", "9">>

\* str(n) for a non-negative int.
RECURSIVE DecStr(_)
DecStr(n) ==
    IF n < 10 THEN <<DigitChar[n + 1]>>
    ELSE DecStr(n \div 10) \o <<DigitChar[(n % 10) + 1]>>

\* Parameter values are tagged with their Python type.
PyInt(n) == [type |-> "int", int |-> n, str |-> <<>>]
PyStrV(s) == [type |-> "str", int |-> 0, str |-> s]

\* What an f-string renders for a value: {params[k]}.
Format(v) == IF v.type = "int" THEN DecStr(v.int) ELSE v.str

\* list.sort() on a list of strings, as insertion into a sorted list.
RECURSIVE Insert(_, _)
Insert(s, sorted) ==
    IF sorted = <<>> THEN <<s>>
    ELSE IF StrLess(Head(sorted), s) THEN <<Head(sorted)>> \o Insert(s, Tail(sorted))
    ELSE <<s>> \o sorted

RECURSIVE Sort(_)
Sort(list) ==
    IF list = <<>> THEN <<>>
    ELSE Insert(list[Len(list)], Sort(SubSeq(list, 1, Len(list) - 1)))

\* connector.join(list)
RECURSIVE Join(_, _)
Join(connector, list) ==
    IF list = <<>> THEN <<>>
    ELSE IF Len(list) = 1 THEN list[1]
    ELSE list[1] \o connector \o Join(connector, Tail(list))

(***************************************************************************)
(* construct_unique_key                                                    *)
(***************************************************************************)

\* The list param_strings before the sort: one "k_v" per parameter, in the
\* dict's insertion order.
ParamStrings(params) ==
    [i \in 1..Len(params) |-> params[i][1] \o <<"_">> \o Format(params[i][2])]

\* The mutation: the fragments are joined in insertion order.
construct_unique_key_unsorted(baseurl, params) ==
    baseurl \o <<"_">> \o Join(<<"_">>, ParamStrings(params))

\* The mutation: a parameter whose value renders as '' gets no fragment.
construct_unique_key_skip_blank(baseurl, params) ==
    LET HasText(kv) == Format(kv[2]) # <<>> IN
    baseurl \o <<"_">> \o Join(<<"_">>, Sort(ParamStrings(SelectSeq(params, HasText))))

construct_unique_key(baseurl, params) ==
    baseurl \o <<"_">> \o Join(<<"_">>, Sort(ParamStrings(params)))

\* 'https://api.yelp.com/v3/businesses/search'
yelp_base ==
    <<"h", "t", "t", "p", "s", ":", "/", "/", "a", "p", "i", ".", "y", "e",
      "l", "p", ".", "c", "o", "m", "/", "v", "3", "/", "b", "u", "s", "i",
      "n", "e", "s", "s", "e", "s", "/", "s", "e", "a", "r", "c", "h">>

\* f'https://www.zipcodeapi.com/rest/{zip_key}/info.json/', the key being "K"
zip_base ==
    <<"h", "t", "t", "p", "s", ":", "/", "/", "w", "w", "w", ".", "z", "i",
      "p", "c", "o", "d", "e", "a", "p", "i", ".", "c", "o", "m", "/", "r",
      "e", "s", "t", "/", "K", "/", "i", "n", "f", "o", ".", "j", "s", "o",
      "n", "/">>

\* Parameter names used by yelp_make_request_with_cache.
NameLimit    == <<"l", "i", "m", "i", "t">>
NameLocation == <<"l", "o", "c", "a", "t", "i", "o", "n">>
NameTerm     == <<"t", "e", "r", "m">>

Zip48109 == <<"4", "8", "1", "0", "9">>
Zip01234 == <<"0", "1", "2", "3", "4">>
TermTea  == <<"T", "e", "a">>
Termtea  == <<"t", "e", "a">>

\* The largest number of parameters in a mapping.
MaxParams == 3

ParamNames == {NameLimit, NameLocation, NameTerm}

ParamValues(name) ==
    IF name = NameLimit THEN {PyInt(10), PyInt(9)}
    ELSE IF name = NameLocation THEN {PyStrV(Zip48109), PyStrV(Zip01234)}
    ELSE {PyStrV(TermTea), PyStrV(Termtea), PyStrV(<<>>)}

\* Sequences without repetition over a set: the orders a dict can be built in.
RECURSIVE Orders(_)
Orders(S) ==
    IF S = {} THEN {<<>>}
    ELSE UNION {{<<x>> \o o : o \in Orders(S \ {x})} : x \in S}

\* All parameter dicts: a subset of the names, an insertion order, a value each.
RECURSIVE DictsOver(_)
DictsOver(names) ==
    IF names = <<>> THEN {<<>>}
    ELSE {<<<<Head(names), v>>>> \o d :
            v \in ParamValues(Head(names)), d \in DictsOver(Tail(names))}

ParamDicts ==
    UNION {DictsOver(o) :
             o \in UNION {Orders(S) :
                            S \in {T \in SUBSET ParamNames : Cardinality(T) <= MaxParams}}}

Endpoints == {yelp_base, zip_base}

\* The same key/value pairs, inserted in another order.
Reorderings(params) ==
    {[i \in 1..Len(params) |-> params[o[i]]] : o \in Orders(1..Len(params))}

\* The arguments of a call of construct_unique_key that is about to be made.
InitKey ==
    /\ keyArgs \in [baseurl : Endpoints, params : ParamDicts, called : {FALSE}]
    /\ keyOut = <<>>

\* The call construct_unique_key(baseurl, params).
ConstructUniqueKey ==
    /\ ~keyArgs.called
    /\ keyArgs' = [keyArgs EXCEPT !.called = TRUE]
    /\ keyOut' = construct_unique_key(keyArgs.baseurl, keyArgs.params)
    /\ UNCHANGED <<normVars, tableVars, cacheVars, appVars, raceVars>>

\* C2: for every endpoint and every parameter mapping, every mapping that
\* holds the same key/value pairs in another insertion order gets the key
\* that construct_unique_key returned.
C2_OrderIndependent ==
    keyArgs.called =>
        \A q \in Reorderings(keyArgs.params) :
            construct_unique_key(keyArgs.baseurl, q) = keyOut

\* C2 witness: a key was built for three parameters inserted in an order
\* that is not the sorted one.
C2_Witness ==
    /\ keyArgs.called
    /\ Len(keyArgs.params) = 3
    /\ keyArgs.params[1][1] = NameTerm
    /\ keyArgs.params[3][1] = NameLimit
    /\ keyOut = keyArgs.baseurl \o <<"_">>
                  \o NameLimit \o <<"_">> \o Format(keyArgs.params[3][2]) \o <<"_">>
                  \o NameLocation \o <<"_">> \o Format(keyArgs.params[2][2]) \o <<"_">>
                  \o NameTerm \o <<"_">> \o Format(keyArgs.params[1][2])

\* Two dicts are the same mapping when they hold the same name/value pairs.
SamePairs(p, q) == {p[i] : i \in 1..Len(p)} = {q[i] : i \in 1..Len(q)}

\* C17: for one endpoint, every mapping over limit, location and term (no
\* underscore in a name or a value) that is not the mapping of the call gets
\* a key other than the one construct_unique_key returned; a mapping with a
\* term and the one without it, and a mapping with the term '' and the one
\* without a term, are among them.
C17_DifferentMappingsDifferentKeys ==
    keyArgs.called =>
        \A q \in ParamDicts :
            ~SamePairs(q, keyArgs.params) =>
                construct_unique_key(keyArgs.baseurl, q) # keyOut

\* C17 witness: a key was built for a mapping whose term is the empty
\* string, and the mapping without the term gets another key.
C17_Witness ==
    /\ keyArgs.called
    /\ keyArgs.params = <<<<NameLimit, PyInt(10)>>, <<NameTerm, PyStrV(<<>>)>>>>
    /\ keyOut # construct_unique_key(keyArgs.baseurl, <<<<NameLimit, PyInt(10)>>>>)
    /\ keyOut[Len(keyOut)] = "_"

NextKey == ConstructUniqueKey

(***************************************************************************)
(* get_zip_instance and format_nearby_places                               *)
(*                                                                         *)
(* json_results is None or a JSON object (a function from keys to values). *)
(* JSON numbers (lat, review_count, rating) are written as strings: the    *)
(* code only compares them with '' and stores them.                        *)
(***************************************************************************)

JNull == [t |-> "null", m |-> <<>>]
JObject(m) == [t |-> "object", m |-> m]

\* What a call did: it returned a value of a Python type, or it raised.
Returned(type, text, obj) ==
    [outcome |-> "returned", exception |-> "", type |-> type, text |-> text, obj |-> obj]
Raised(exception) ==
    [outcome |-> "raised", exception |-> exception, type |-> "", text |-> "", obj |-> <<>>]

\* Zipcode.__init__
Zipcode(zipcode, latitude, longitude, city, state, timezone) ==
    [zipcode |-> zipcode, latitude |-> latitude, longitude |-> longitude,
     city |-> city, state |-> state, timezone |-> timezone]

\* Yelp.__init__
Yelp(name, zipcode, bus_type, phone, address, reviews, rating, price, link) ==
    [name |-> name, zipcode |-> zipcode, bus_type |-> bus_type, phone |-> phone,
     address |-> address, reviews |-> reviews, rating |-> rating, price |-> price,
     link |-> link]

\* The mutation: a blank field is left blank.
Placeholder_kept_blank(value, placeholder) == value

\* "if x == '': x = 'No X'"
Placeholder(value, placeholder) == IF value = "" THEN placeholder ELSE value

ZipKeys == <<"zip_code", "lat", "lng", "city", "state", "timezone">>

get_zip_instance(json_results) ==
    IF json_results.t = "null" THEN Raised("TypeError")
    ELSE LET d == json_results.m IN
         IF \E i \in 1..Len(ZipKeys) : ZipKeys[i] \notin DOMAIN d THEN Raised("KeyError")
         ELSE IF "timezone_abbr" \notin DOMAIN d["timezone"] THEN Raised("KeyError")
         ELSE Returned("Zipcode", "",
                Zipcode(Placeholder(d["zip_code"], "No Zipcode"),
                        Placeholder(d["lat"], "No Latitude"),
                        Placeholder(d["lng"], "No Longitude"),
                        Placeholder(d["city"], "No City"),
                        Placeholder(d["state"], "No State"),
                        Placeholder(d["timezone"]["timezone_abbr"], "No Timezone")))

\* The guarded reads of one entry, list_dict_nearby[i]. Each is the value
\* read, '' where the code's test finds the key missing.
EntryName(e) == IF "name" \in DOMAIN e THEN e["name"] ELSE ""

\* Both location tests look for the sub-key among the ENTRY's keys.
EntryZipcode(e) ==
    IF "location" \in DOMAIN e
    THEN IF "zip_code" \in DOMAIN e THEN e["location"]["zip_code"] ELSE ""
    ELSE ""

EntryAddress(e) ==
    IF "location" \in DOMAIN e
    THEN IF "address1" \in DOMAIN e THEN e["location"]["address1"] ELSE ""
    ELSE ""

\* The title test looks for 'title' among the ENTRY's keys.
EntryBusType(e) ==
    IF "categories" \in DOMAIN e
    THEN IF Len(e["categories"]) > 0
         THEN IF "title" \in DOMAIN e THEN e["categories"][1]["title"] ELSE ""
         ELSE ""
    ELSE ""

EntryPhone(e)   == IF "phone" \in DOMAIN e THEN e["phone"] ELSE ""
EntryReviews(e) == IF "review_count" \in DOMAIN e THEN e["review_count"] ELSE ""
EntryRating(e)  == IF "rating" \in DOMAIN e THEN e["rating"] ELSE ""
EntryPrice(e)   == IF "price" \in DOMAIN e THEN e["price"] ELSE ""
EntryLink(e)    == IF "url" \in DOMAIN e THEN e["url"] ELSE ""

\* A subscript the tests above let through on a key that is not there.
EntryRaises(e) ==
    \/ /\ "location" \in DOMAIN e
       /\ \/ "zip_code" \in DOMAIN e /\ "zip_code" \notin DOMAIN e["location"]
          \/ "address1" \in DOMAIN e /\ "address1" \notin DOMAIN e["location"]
    \/ /\ "categories" \in DOMAIN e
       /\ Len(e["categories"]) > 0
       /\ "title" \in DOMAIN e
       /\ "title" \notin DOMAIN e["categories"][1]

\* The loop body for entry i, up to its return statement.
EntryRecord(e) ==
    Yelp(Placeholder(EntryName(e), "No Name"),
         Placeholder(EntryZipcode(e), "No Zip"),
         Placeholder(EntryBusType(e), "No Type"),
         Placeholder(EntryPhone(e), "No Phone"),
         Placeholder(EntryAddress(e), "No Address"),
         Placeholder(EntryReviews(e), "No Reviews"),
         Placeholder(EntryRating(e), "No Rating"),
         Placeholder(EntryPrice(e), "No Price"),
         Placeholder(EntryLink(e), "No Link"))

\* The return statement is inside the loop: the first entry's record is
\* returned; with no entry the loop body never runs and the function
\* returns None.
format_nearby_places(json_results) ==
    IF json_results.t = "null" THEN Raised("AttributeError")
    ELSE IF "businesses" \notin DOMAIN json_results.m
    THEN Returned("str", "No valid results.", <<>>)
    ELSE LET list_dict_nearby == json_results.m["businesses"] IN
         IF Len(list_dict_nearby) = 0 THEN Returned("NoneType", "", <<>>)
         ELSE IF EntryRaises(list_dict_nearby[1]) THEN Raised("KeyError")
         ELSE Returned("Yelp", "", EntryRecord(list_dict_nearby[1]))

\* --- inputs -------------------------------------------------------------

\* A key that may be missing: the empty object, or the key with one of vals.
Opt(k, vals) == {<<>>} \cup {k :> v : v \in vals}

\* Location documents of the zipcode API: each field missing, '' or a value.
ZipDocs ==
    {a @@ b @@ c @@ d @@ e @@ f :
        a \in Opt("zip_code", {"", "48109"}),
        b \in Opt("lat", {"", "42.27"}),
        c \in Opt("lng", {"", "-83.75"}),
        d \in Opt("city", {"", "Ann Arbor"}),
        e \in Opt("state", {"", "MI"}),
        f \in Opt("timezone", {<<>>, [timezone_abbr |-> ""], [timezone_abbr |-> "EST"]})}

\* The zipcode API's error document.
ZipErrorDoc == [error_code |-> "404", error_msg |-> "Zip code not found."]

\* The Yelp API's error document.
YelpErrorDoc == [error |-> [code |-> "LOCATION_NOT_FOUND"]]

IsErrorDoc(d) == "error_code" \in DOMAIN d \/ "error" \in DOMAIN d

ZipInputs == {JNull, JObject(ZipErrorDoc)} \cup {JObject(d) : d \in ZipDocs}

\* Business entries of the Yelp API, each key of the schema present or not.
Entries ==
    {a @@ b @@ c @@ d @@ e @@ f @@ g @@ h :
        a \in Opt("name", {"", "Joe's"}),
        b \in Opt("location", {<<>>, [zip_code |-> "48109"], [address1 |-> "1 Main St"],
                               [zip_code |-> "48109", address1 |-> "1 Main St"]}),
        c \in Opt("categories", {<<>>, << <<>> >>, <<[title |-> "Cafe"]>>}),
        d \in Opt("phone", {"", "+17345550100"}),
        e \in Opt("review_count", {"12"}),
        f \in Opt("rating", {"4.5"}),
        g \in Opt("price", {"$$"}),
        h \in Opt("url", {"https://www.yelp.com/biz/joes"})}

\* The entries that follow the first one in a payload.
LaterEntries ==
    {[name |-> "Ann's", phone |-> "+17345550111", url |-> "https://www.yelp.com/biz/anns"],
     [name |-> "Bo's", url |-> "https://www.yelp.com/biz/bos"]}

\* The largest number of entries in a 'businesses' collection.
MaxBusinesses == 2

RECURSIVE Tails(_)
Tails(n) ==
    IF n = 0 THEN {<<>>}
    ELSE Tails(n - 1) \cup {<<e>> \o t : e \in LaterEntries, t \in Tails(n - 1)}

BusinessLists ==
    {<<>>} \cup {<<e>> \o t : e \in Entries, t \in Tails(MaxBusinesses - 1)}

YelpInputs ==
    {JObject(YelpErrorDoc), JObject(<<>>)}
        \cup {JObject([businesses |-> l]) : l \in BusinessLists}

\* The json_results of a parser call that is about to be made.
InitNorm ==
    /\ normOp = "none"
    /\ normIn \in ZipInputs \cup YelpInputs
    /\ normOut = Raised("")

\* The call get_zip_instance(json_results).
GetZipInstance ==
    /\ normOp = "none"
    /\ normIn \in ZipInputs
    /\ normOp' = "get_zip_instance"
    /\ normOut' = get_zip_instance(normIn)
    /\ UNCHANGED <<normIn, keyVars, tableVars, cacheVars, appVars, raceVars>>

\* The call format_nearby_places(json_results).
FormatNearbyPlaces ==
    /\ normOp = "none"
    /\ normIn \in YelpInputs
    /\ normOp' = "format_nearby_places"
    /\ normOut' = format_nearby_places(normIn)
    /\ UNCHANGED <<normIn, keyVars, tableVars, cacheVars, appVars, raceVars>>

NextNorm == GetZipInstance \/ FormatNearbyPlaces

\* The field the claims expect for a key of a document: its placeholder when
\* the key is missing or holds '', the value otherwise.
Expected(d, k, placeholder) ==
    IF k \notin DOMAIN d THEN placeholder
    ELSE IF d[k] = "" THEN placeholder
    ELSE d[k]

ExpectedTimezone(d) ==
    IF "timezone" \notin DOMAIN d THEN "No Timezone"
    ELSE Expected(d["timezone"], "timezone_abbr", "No Timezone")

\* C6: get_zip_instance never raises; for None or an error document it
\* returns None ('absent'); for any other document, {} included, it returns
\* a record in which every missing or empty field, the timezone sub-object
\* and its timezone_abbr included, is its placeholder and every other field
\* is the document's value.
C6_NormalizeLocationTotal ==
    normOp = "get_zip_instance" =>
        /\ normOut.outcome = "returned"
        /\ IF normIn.t = "null" \/ IsErrorDoc(normIn.m)
           THEN normOut.type = "NoneType"
           ELSE /\ normOut.type = "Zipcode"
                /\ normOut.obj =
                     Zipcode(Expected(normIn.m, "zip_code", "No Zipcode"),
                             Expected(normIn.m, "lat", "No Latitude"),
                             Expected(normIn.m, "lng", "No Longitude"),
                             Expected(normIn.m, "city", "No City"),
                             Expected(normIn.m, "state", "No State"),
                             ExpectedTimezone(normIn.m))

\* The entries of the payload handed to format_nearby_places.
InputEntries ==
    IF normIn.t = "object" /\ "businesses" \in DOMAIN normIn.m
    THEN normIn.m["businesses"]
    ELSE <<>>

\* C7: format_nearby_places returns a sequence with one record per entry of
\* 'businesses', in order: the empty sequence when the collection is empty
\* or the key is absent, n records for n entries.
C7_OneRecordPerEntry ==
    normOp = "format_nearby_places" =>
        /\ normOut.outcome = "returned"
        /\ normOut.type = "list"
        /\ Len(normOut.obj) = Len(InputEntries)

\* C8: format_nearby_places does not raise, and in the record it builds for
\* an entry every field whose source is missing (name, location,
\* location.zip_code, location.address1, categories, an empty categories
\* list, a first category without title, phone, review_count, rating,
\* price, url) is that field's placeholder.
C8_MissingFieldsGetPlaceholders ==
    normOp = "format_nearby_places" =>
        /\ normOut.outcome = "returned"
        /\ Len(InputEntries) > 0 =>
             LET e == InputEntries[1]
                 r == normOut.obj
             IN  /\ normOut.type = "Yelp"
                 /\ "name" \notin DOMAIN e => r.name = "No Name"
                 /\ ("location" \notin DOMAIN e \/ "zip_code" \notin DOMAIN e["location"])
                       => r.zipcode = "No Zip"
                 /\ ("location" \notin DOMAIN e \/ "address1" \notin DOMAIN e["location"])
                       => r.address = "No Address"
                 /\ ( \/ "categories" \notin DOMAIN e
                      \/ Len(e["categories"]) = 0
                      \/ "title" \notin DOMAIN e["categories"][1] )
                       => r.bus_type = "No Type"
                 /\ "phone" \notin DOMAIN e => r.phone = "No Phone"
                 /\ "review_count" \notin DOMAIN e => r.reviews = "No Reviews"
                 /\ "rating" \notin DOMAIN e => r.rating = "No Rating"
                 /\ "price" \notin DOMAIN e => r.price = "No Price"
                 /\ "url" \notin DOMAIN e => r.link = "No Link"

\* C8 witness: a record was built for an entry that lacks 'categories' and
\* 'phone' and has its other keys; it holds 'No Type' and 'No Phone'.
C8_Witness ==
    /\ normOp = "format_nearby_places"
    /\ Len(InputEntries) > 0
    /\ DOMAIN InputEntries[1] =
          {"name", "location", "review_count", "rating", "price", "url"}
    /\ normOut.type = "Yelp"
    /\ normOut.obj.bus_type = "No Type"
    /\ normOut.obj.phone = "No Phone"
    /\ normOut.obj.name = "Joe's"

\* C9: in the record built for an entry, every field whose source is
\* present and non-empty holds the extracted value: name, zipcode =
\* location.zip_code, address = location.address1, category =
\* categories[0].title, phone, review_count, rating, price, link = url.
C9_PresentFieldsAreExtracted ==
    (normOp = "format_nearby_places" /\ Len(InputEntries) > 0) =>
        LET e == InputEntries[1]
            r == normOut.obj
        IN  /\ normOut.type = "Yelp"
            /\ ("name" \in DOMAIN e /\ e["name"] # "") => r.name = e["name"]
            /\ ("location" \in DOMAIN e /\ "zip_code" \in DOMAIN e["location"])
                  => r.zipcode = e["location"]["zip_code"]
            /\ ("location" \in DOMAIN e /\ "address1" \in DOMAIN e["location"])
                  => r.address = e["location"]["address1"]
            /\ ( /\ "categories" \in DOMAIN e
                 /\ Len(e["categories"]) > 0
                 /\ "title" \in DOMAIN e["categories"][1] )
                  => r.bus_type = e["categories"][1]["title"]
            /\ ("phone" \in DOMAIN e /\ e["phone"] # "") => r.phone = e["phone"]
            /\ "review_count" \in DOMAIN e => r.reviews = e["review_count"]
            /\ "rating" \in DOMAIN e => r.rating = e["rating"]
            /\ "price" \in DOMAIN e => r.price = e["price"]
            /\ "url" \in DOMAIN e => r.link = e["url"]

(***************************************************************************)
(* The zipcodes table (create_zip) and the statement insert_zip            *)
(*                                                                         *)
(* zipcodes is the set of rows the connection that executes the statements *)
(* sees; a row is a record with the six columns.                           *)
(***************************************************************************)

\* An INSERT into a table whose PRIMARY KEY is the column Zipcode, with the
\* conflict clause of the statement: the table afterwards and the error
\* raised, '' for none.
SqlInsert(table, row, onConflict) ==
    IF \A r \in table : r.zipcode # row.zipcode
    THEN [table |-> table \cup {row}, error |-> ""]
    ELSE CASE onConflict = "IGNORE" ->
                [table |-> table, error |-> ""]
           [] onConflict = "REPLACE" ->
                [table |-> {r \in table : r.zipcode # row.zipcode} \cup {row},
                 error |-> ""]
           [] OTHER ->
                [table |-> table, error |-> "IntegrityError"]

\* The mutation: INSERT OR REPLACE.
insert_zip_or_replace(table, row) == SqlInsert(table, row, "REPLACE")

\* INSERT OR IGNORE INTO zipcodes VALUES(?, ?, ?, ?, ?, ?)
insert_zip(table, row) == SqlInsert(table, row, "IGNORE")

\* The records handed to insert_zip: what get_zip_instance can return.
LocationRecords ==
    {Zipcode(z, "42.27", "-83.75", c, s, "EST") :
        z \in {"48109", "01234", "No Zipcode"},
        c \in {"Ann Arbor", "No City"},
        s \in {"MI", "No State"}}

NoInsert == [row |-> Zipcode("", "", "", "", "", ""), error |-> "", executed |-> FALSE]

\* The table right after create_zip on a new database file.
InitTable ==
    /\ zipcodes = {}
    /\ firstUpsert = <<>>
    /\ lastInsert = NoInsert

\* conn.execute(insert_zip, [obj.zipcode, obj.latitude, obj.longitude,
\* obj.city, obj.state, obj.timezone])
ExecuteInsertZip ==
    /\ \E row \in LocationRecords :
          LET done == insert_zip(zipcodes, row) IN
          /\ zipcodes' = done.table
          /\ lastInsert' = [row |-> row, error |-> done.error, executed |-> TRUE]
          /\ firstUpsert' =
                IF row.zipcode \in DOMAIN firstUpsert THEN firstUpsert
                ELSE firstUpsert @@ (row.zipcode :> row)
    /\ UNCHANGED <<keyVars, normVars, cacheVars, appVars, raceVars>>

NextTable == ExecuteInsertZip

JArray(l) == [t |-> "array", m |-> l]

FileMissing == [kind |-> "missing", value |-> JNull]
FileGarbage == [kind |-> "garbage", value |-> JNull]
FileJson(v) == [kind |-> "json", value |-> v]

\* The mutation: open_cache forgets what the file holds.
open_cache_fresh(file) == JObject(<<>>)

\* try: open + read + json.loads; except: {}.  A json.loads that succeeds
\* returns the value of the file, whatever its type.
open_cache(file) ==
    IF file.kind = "json" THEN file.value ELSE JObject(<<>>)

\* The mutation: save_cache keeps the entries the file holds by now.
save_cache_merging(cache_dict) ==
    FileJson(JObject(
        cache_dict @@ (IF cacheFile.kind = "json" /\ cacheFile.value.t = "object"
                       THEN cacheFile.value.m ELSE <<>>)))

\* json.dumps(cache_dict) written over the file.
save_cache(cache_dict) == FileJson(JObject(cache_dict))

\* The same Python string as a JSON leaf value.
Text(s) ==
    CASE s = Zip48109 -> "48109"
      [] s = Zip01234 -> "01234"
      [] s = <<"1", "2", "3", "4">> -> "1234"

Degrees == <<"/", "d", "e", "g", "r", "e", "e", "s">>

PyNone == [type |-> "NoneType", int |-> 0, str |-> <<>>]

\* The zipcodes and search terms of the calls.
ZipArgs  == {Zip48109, Zip01234}
TermArgs == {PyNone, PyStrV(TermTea), PyStrV(Termtea)}

\* A location document of the zipcode API.
ZipDoc(zipcode, city) ==
    [zip_code |-> Text(zipcode), lat |-> "42.27", lng |-> "-83.75", city |-> city,
     state |-> "MI", timezone |-> [timezone_abbr |-> "EST"]]

\* What requests.get(...).json() can do: return a document (the API's error
\* document included) or raise (no connection, a body that is not JSON).
Response(doc) == [kind |-> "response", doc |-> doc]
Failure == [kind |-> "failure", doc |-> <<>>]

ZipTransport(zipcode) ==
    {Response(ZipDoc(zipcode, "Ann Arbor")), Response(ZipDoc(zipcode, "Ypsilanti")),
     Response(ZipErrorDoc), Failure}

YelpTransport ==
    {Response([businesses |-> <<[name |-> "Joe's", phone |-> "+17345550100"]>>]),
     Response([businesses |-> <<>>]),
     Response(YelpErrorDoc), Failure}

\* The largest number of requests.get calls in a run.
MaxFetches == 2

\* for key, values in params.items(): if type(values) == str:
\*     params[key] = values.lower()
LowerParams(params) ==
    [i \in 1..Len(params) |->
        <<params[i][1],
          IF params[i][2].type = "str" THEN PyStrV(Lower(params[i][2].str))
          ELSE params[i][2]>>]

\* params = {'limit': 10}, then 'location' and 'term' unless they are None.
YelpParams(zipcode, term) ==
    <<<<NameLimit, PyInt(10)>>>>
        \o (IF zipcode.type # "NoneType" THEN <<<<NameLocation, zipcode>>>> ELSE <<>>)
        \o (IF term.type # "NoneType" THEN <<<<NameTerm, term>>>> ELSE <<>>)

\* The mutation: the key is never found in the cache.
InCache_never(cache_dict, query_url) == FALSE

\* query_url in CACHE_DICT.keys()
InCache(cache_dict, query_url) == query_url \in DOMAIN cache_dict

NoCall ==
    [fn |-> "none", key |-> <<>>, signal |-> "", outcome |-> "", exception |-> "",
     value |-> <<>>, fetches |-> 0, transport |-> "none", fileBefore |-> FileMissing]

\* The if/else both get-or-fetch functions end with, from the loaded
\* CACHE_DICT on: a hit returns the stored value; a miss calls the request
\* function (logged as one transport call with what was sent), stores what
\* it returned, saves, and returns it. CACHE_DICT.keys() raises when the
\* loaded value is no dict; an exception of the request function passes
\* through.
GetOrFetch(fn, CACHE_DICT, query_url, sent, t) ==
    LET call == [NoCall EXCEPT !.fn = fn, !.key = query_url, !.fileBefore = cacheFile] IN
    IF CACHE_DICT.t # "object"
    THEN /\ last' = [call EXCEPT !.outcome = "raised", !.exception = "AttributeError"]
         /\ UNCHANGED <<cacheFile, transportLog>>
    ELSE IF InCache(CACHE_DICT.m, query_url)
    THEN /\ last' = [call EXCEPT !.signal = "fetching cached data",
                                 !.outcome = "returned",
                                 !.value = CACHE_DICT.m[query_url]]
         /\ UNCHANGED <<cacheFile, transportLog>>
    ELSE /\ Len(transportLog) < MaxFetches
         /\ transportLog' = Append(transportLog,
                                   [key |-> query_url, sent |-> sent, result |-> t.kind])
         /\ IF t.kind = "failure"
            THEN /\ last' = [call EXCEPT !.signal = "making new request",
                                         !.outcome = "raised",
                                         !.exception = "RequestException",
                                         !.fetches = 1,
                                         !.transport = "failure"]
                 /\ UNCHANGED cacheFile
            ELSE LET stored == (query_url :> t.doc) @@ CACHE_DICT.m IN
                 /\ cacheFile' = save_cache(stored)
                 /\ last' = [call EXCEPT !.signal = "making new request",
                                         !.outcome = "returned",
                                         !.value = stored[query_url],
                                         !.fetches = 1,
                                         !.transport = IF IsErrorDoc(t.doc)
                                                       THEN "error_response"
                                                       ELSE "response"]

\* zip_make_request_with_cache(zip_base, zipcode), with t what the
\* transport does if it is called.
zip_make_request_with_cache(zipcode, t) ==
    LET CACHE_DICT == open_cache(cacheFile)
        query_url == zip_base \o zipcode \o Degrees
    IN  GetOrFetch("zip_make_request_with_cache", CACHE_DICT, query_url,
                   [url |-> query_url, params |-> <<>>], t)

\* One call zip_make_request_with_cache(zip_base, zipcode).
ZipMakeRequestWithCache ==
    /\ \E zipcode \in ZipArgs :
         \E t \in ZipTransport(zipcode) :
            zip_make_request_with_cache(zipcode, t)
    /\ UNCHANGED <<cacheFile0, keyVars, normVars, tableVars, appVars, raceVars>>

\* One call yelp_make_request_with_cache(yelp_base, zipcode, term).
YelpMakeRequestWithCache ==
    /\ \E zipcode \in {PyStrV(Zip48109)}, term \in TermArgs :
         \E t \in YelpTransport :
            LET CACHE_DICT == open_cache(cacheFile)
                params == YelpParams(zipcode, term)
                query_url == construct_unique_key(yelp_base, params)
            IN  GetOrFetch("yelp_make_request_with_cache", CACHE_DICT, query_url,
                           [url |-> yelp_base, params |-> LowerParams(params)], t)
    /\ UNCHANGED <<cacheFile0, keyVars, normVars, tableVars, appVars, raceVars>>

\* The cache file when the program starts: missing, unparseable, the JSON
\* array [], the JSON object {} or an object with one entry of an earlier run.
InitialFiles ==
    {FileMissing, FileGarbage, FileJson(JArray(<<>>)), FileJson(JObject(<<>>)),
     FileJson(JObject((zip_base \o Zip48109 \o Degrees) :> ZipDoc(Zip48109, "Ann Arbor")))}

InitCache ==
    /\ cacheFile \in InitialFiles
    /\ cacheFile0 = cacheFile
    /\ transportLog = <<>>
    /\ last = NoCall

\* --- what the claims speak of --------------------------------------------

\* The entries of a cache file: none unless it holds a JSON object.
FileMap(file) ==
    IF file.kind = "json" /\ file.value.t = "object" THEN file.value.m ELSE <<>>

Contains(file, k) == k \in DOMAIN FileMap(file)

\* The transport calls made for key k, and those that returned a document.
Invocations(k) == {i \in 1..Len(transportLog) : transportLog[i].key = k}
Responses(k) == {i \in Invocations(k) : transportLog[i].result = "response"}

LoggedKeys == {transportLog[i].key : i \in 1..Len(transportLog)}

\* The call got past the lookup: what open_cache loaded from the file the
\* call found is a dict.
LoadedDict(file) == file.kind # "json" \/ file.value.t = "object"

\* C1: for every key the cache file did not hold at the start, the calls
\* with that key get exactly one document from the transport, and the file
\* holds the key from then on; a call that finds its key in the file makes
\* no transport call and returns the stored value; a call that does not
\* find it makes exactly one transport call, and the document it gets is in
\* the file under the key afterwards.
C1_CacheIdempotent ==
    /\ \A k \in (DOMAIN FileMap(cacheFile) \cup LoggedKeys) \ DOMAIN FileMap(cacheFile0) :
          /\ Cardinality(Responses(k)) <= 1
          /\ Contains(cacheFile, k) <=> Cardinality(Responses(k)) = 1
    /\ (last.fn # "none" /\ Contains(last.fileBefore, last.key)) =>
          /\ last.fetches = 0
          /\ last.outcome = "returned"
          /\ last.value = FileMap(last.fileBefore)[last.key]
          /\ cacheFile = last.fileBefore
    /\ (last.fn # "none" /\ ~Contains(last.fileBefore, last.key)
          /\ LoadedDict(last.fileBefore)) =>
          /\ last.fetches = 1
          /\ last.transport # "failure" =>
                /\ Contains(cacheFile, last.key)
                /\ FileMap(cacheFile)[last.key] = last.value
                /\ last.outcome = "returned"

\* C1 witness: a key that was not in the file at the start was fetched once
\* and the last call, with the same key, was served from the file.
C1_Witness ==
    /\ last.fn = "yelp_make_request_with_cache"
    /\ ~Contains(cacheFile0, last.key)
    /\ Contains(last.fileBefore, last.key)
    /\ Cardinality(Responses(last.key)) = 1
    /\ last.fetches = 0
    /\ last.signal = "fetching cached data"
    /\ last.value = FileMap(cacheFile)[last.key]

\* C3: when the transport returns a document with an error indicator, the
\* call does not store it: afterwards the file has no entry for the key
\* (so a later call asks the transport again) and the caller gets a 'no
\* result' value, not the error document.
C3_ErrorPayloadNotCached ==
    last.transport = "error_response" =>
        /\ ~Contains(cacheFile, last.key)
        /\ last.outcome = "returned"
        /\ ~IsErrorDoc(last.value)

\* C4: when the transport call fails during a miss, the call returns a 'no
\* data' value instead of raising and leaves the cache file as it was.
C4_TransportFailureReturnsNoData ==
    last.transport = "failure" =>
        /\ last.outcome = "returned"
        /\ cacheFile = last.fileBefore

\* C5: whatever the cache file holds (missing, unparseable, a JSON value
\* that is no object, an object), open_cache returns a mapping, the stored
\* one for an object and the empty one otherwise, so the key lookup of the
\* call never fails.
C5_OpenCacheReturnsMapping ==
    last.fn # "none" =>
        /\ open_cache(last.fileBefore).t = "object"
        /\ open_cache(last.fileBefore).m = FileMap(last.fileBefore)
        /\ last.exception # "AttributeError"

\* C12: a call that got past the lookup printed exactly one of the two
\* signals: 'fetching cached data' exactly when the key was in the cache it
\* loaded, and then it made no transport call; 'making new request' exactly
\* when the key was not, and then it made one.
C12_SignalMatchesPath ==
    (last.fn # "none" /\ LoadedDict(last.fileBefore)) =>
        /\ last.signal \in {"fetching cached data", "making new request"}
        /\ last.signal = "fetching cached data" <=> Contains(last.fileBefore, last.key)
        /\ last.signal = "making new request" <=> ~Contains(last.fileBefore, last.key)
        /\ last.signal = "fetching cached data" => last.fetches = 0
        /\ last.signal = "making new request" => last.fetches = 1

\* C12 witness: after an earlier transport call, a call announced a new
\* request for a key its cache did not hold and the transport was called.
C12_Witness ==
    /\ Len(transportLog) = 2
    /\ last.signal = "making new request"
    /\ last.fetches = 1
    /\ ~Contains(last.fileBefore, last.key)
    /\ transportLog[2].key = last.key

\* C13: every step of the one process keeps each entry the file holds, key
\* and value, and adds no key but the one the call of that step missed.
C13_AppendOnly ==
    [][/\ \A k \in DOMAIN FileMap(cacheFile) :
             /\ Contains(cacheFile', k)
             /\ FileMap(cacheFile')[k] = FileMap(cacheFile)[k]
       /\ (DOMAIN FileMap(cacheFile') \ DOMAIN FileMap(cacheFile)) \subseteq {last'.key}
       /\ last'.fetches = 0 => cacheFile' = cacheFile]_vars

\* C13 witness: the file holds the entry it started with and the two keys
\* that two misses added.
C13_Witness ==
    /\ Cardinality(DOMAIN FileMap(cacheFile0)) = 1
    /\ Cardinality(DOMAIN FileMap(cacheFile)) = 3
    /\ \A k \in DOMAIN FileMap(cacheFile0) :
          Contains(cacheFile, k) /\ FileMap(cacheFile)[k] = FileMap(cacheFile0)[k]

\* C18: the key a response is stored under is the key of the parameters
\* that were handed to the transport, and no two transport calls that
\* returned a document were sent the same request.
C18_OneTransportCallPerSentRequest ==
    /\ \A i \in 1..Len(transportLog) :
          transportLog[i].sent.url = yelp_base =>
              transportLog[i].key =
                  construct_unique_key(yelp_base, transportLog[i].sent.params)
    /\ \A i, j \in 1..Len(transportLog) :
          (i < j /\ transportLog[i].result = "response") =>
              transportLog[i].sent # transportLog[j].sent

(***************************************************************************)
(* The Flask handlers and Si507Proj.sqlite                                 *)
(*                                                                         *)
(* tables and zipcodes are what the database file holds, that is, what is  *)
(* committed. A handler's connection works on its own copy of the rows     *)
(* from its first INSERT on (sqlite3 opens a transaction before it); only  *)
(* a commit writes the copy back, and close() without one drops it.        *)
(***************************************************************************)

\* create_zip and create_yelp
TableNames == {"zipcodes", "yelp"}

\* The int a string of decimal digits denotes.
RECURSIVE IntValue(_)
IntValue(digits) ==
    IF digits = <<>> THEN 0
    ELSE 10 * IntValue(SubSeq(digits, 1, Len(digits) - 1))
           + (CHOOSE d \in 0..9 : DigitChar[d + 1] = digits[Len(digits)])

\* WHERE Zipcode == {zipcode}: the form value is pasted into the statement
\* without quotes, so SQLite reads an integer literal; compared with the
\* TEXT column the integer is turned into its text.
SqlLiteralText(zipcode) == Text(DecStr(IntValue(zipcode)))

\* SELECT City, State, Timezone, Latitude, Longitude FROM zipcodes
\* WHERE Zipcode == {zipcode}, fetchall()
select_location(rows, zipcode) ==
    {<<r.city, r.state, r.timezone, r.latitude, r.longitude>> :
        r \in {x \in rows : x.zipcode = SqlLiteralText(zipcode)}}

\* conn.close() with no conn.commit() before it: the file keeps the rows it
\* had and the connection's pending rows are rolled back.
conn_close(committed, pending) == committed

NoRequest ==
    [handler |-> "none", zipcode |-> <<>>, outcome |-> "", exception |-> "",
     rows |-> {}, tablesBefore |-> {}, view |-> {}]

\* GET /: index() creates both tables if they do not exist and commits.
Index ==
    /\ tables' = tables \cup TableNames
    /\ handled' = [NoRequest EXCEPT !.handler = "index", !.outcome = "returned",
                                    !.tablesBefore = tables]
    /\ UNCHANGED <<zipcodes, firstUpsert, lastInsert, keyVars, normVars, cacheVars,
                   raceVars>>

\* POST /results: results() reads the form's zipcode and runs
\* get_zip_results(zipcode): get-or-fetch the location document, parse it,
\* execute insert_zip, run the location query, close the connection. An
\* exception of any step ends the request there.
Results ==
    /\ \E zipcode \in ZipArgs :
         \E t \in ZipTransport(zipcode) :
            /\ zip_make_request_with_cache(zipcode, t)
            /\ LET req == [NoRequest EXCEPT !.handler = "results",
                                            !.zipcode = zipcode,
                                            !.tablesBefore = tables]
                   obj == get_zip_instance(JObject(last'.value))
               IN  IF last'.outcome = "raised"
                   THEN /\ handled' = [req EXCEPT !.outcome = "raised",
                                                  !.exception = last'.exception]
                        /\ UNCHANGED zipcodes
                   ELSE IF obj.outcome = "raised"
                   THEN /\ handled' = [req EXCEPT !.outcome = "raised",
                                                  !.exception = obj.exception]
                        /\ UNCHANGED zipcodes
                   ELSE IF "zipcodes" \notin tables
                   THEN /\ handled' = [req EXCEPT !.outcome = "raised",
                                                  !.exception = "OperationalError"]
                        /\ UNCHANGED zipcodes
                   ELSE LET done == insert_zip(zipcodes, obj.obj) IN
                        /\ handled' = [req EXCEPT
                                          !.outcome = "returned",
                                          !.view = done.table,
                                          !.rows = select_location(done.table, zipcode)]
                        /\ zipcodes' = conn_close(zipcodes, done.table)
    /\ UNCHANGED <<cacheFile0, tables, firstUpsert, lastInsert, keyVars, normVars,
                   raceVars>>

\* The database file when the server starts: new, or left by an earlier run
\* in which index() was served.
InitApp ==
    /\ tables \in {{}, TableNames}
    /\ handled = NoRequest

NextApp == Index \/ Results

\* --- what the claims speak of --------------------------------------------

\* The document the last get-or-fetch call returned has the six fields.
FullDocument ==
    /\ last.outcome = "returned"
    /\ \A i \in 1..Len(ZipKeys) : ZipKeys[i] \in DOMAIN last.value
    /\ "timezone_abbr" \in DOMAIN last.value["timezone"]

\* C11: when the request got a location document with all six fields and
\* the zipcodes table exists, get_zip_results returns exactly one row: the
\* six values zipcode, latitude, longitude, city, state, timezone of the
\* document, in that order.
C11_LocationQueryReturnsSixValues ==
    (handled.handler = "results" /\ "zipcodes" \in handled.tablesBefore
        /\ FullDocument) =>
        /\ handled.outcome = "returned"
        /\ handled.rows =
              {<<last.value["zip_code"], last.value["lat"], last.value["lng"],
                 last.value["city"], last.value["state"],
                 last.value["timezone"]["timezone_abbr"]>>}

\* C15: whenever the /results handler ran get_zip_results, both tables
\* had been created before.
C15_TablesExistBeforeLocationRequest ==
    handled.handler = "results" => TableNames \subseteq handled.tablesBefore

\* C16: after get_zip_results returned and closed its connection, the
\* database file holds a row for the requested zipcode.
C16_LocationRowIsDurable ==
    (handled.handler = "results" /\ handled.outcome = "returned") =>
        \E r \in zipcodes : r.zipcode = Text(handled.zipcode)

\* C19: the location query returns the row whose stored Zipcode is the
\* requested string when the connection sees such a row and no row
\* otherwise, leading zeros included.
C19_QueryMatchesExactKey ==
    (handled.handler = "results" /\ handled.outcome = "returned") =>
        handled.rows =
            {<<r.city, r.state, r.timezone, r.latitude, r.longitude>> :
                r \in {x \in handled.view : x.zipcode = Text(handled.zipcode)}}

(***************************************************************************)
(* Two processes on one cache file                                         *)
(*                                                                         *)
(* Each process runs zip_make_request_with_cache once, for its own         *)
(* zipcode. The steps of a call that touch the file or the network are     *)
(* separate: open_cache reads the file, the request is made, save_cache    *)
(* writes the file. Nothing in the code locks the file between them.       *)
(***************************************************************************)

Procs == {1, 2}
Other(p) == 3 - p

RaceZip == <<Zip48109, Zip01234>>
RaceKey(p) == zip_base \o RaceZip[p] \o Degrees

NoLoad ==
    [CACHE_DICT |-> JNull, opened |-> FileMissing, over |-> FileMissing,
     outcome |-> ""]

\* CACHE_DICT = open_cache(), then the lookup of query_url.
ProcOpenCache(p) ==
    /\ pc[p] = "open_cache"
    /\ LET CACHE_DICT == open_cache(cacheFile)
           mine == [loaded[p] EXCEPT !.CACHE_DICT = CACHE_DICT, !.opened = cacheFile]
       IN  IF CACHE_DICT.t # "object"
           THEN /\ pc' = [pc EXCEPT ![p] = "done"]
                /\ loaded' = [loaded EXCEPT ![p] = [mine EXCEPT !.outcome = "raised"]]
           ELSE IF InCache(CACHE_DICT.m, RaceKey(p))
           THEN /\ pc' = [pc EXCEPT ![p] = "done"]
                /\ loaded' = [loaded EXCEPT ![p] = [mine EXCEPT !.outcome = "hit"]]
           ELSE /\ pc' = [pc EXCEPT ![p] = "zip_make_request"]
                /\ loaded' = [loaded EXCEPT ![p] = mine]
    /\ UNCHANGED <<cacheFile, cacheFile0, transportLog, last, keyVars, normVars,
                   tableVars, appVars>>

\* CACHE_DICT[query_url] = zip_make_request(query_url)
ProcMakeRequest(p) ==
    /\ pc[p] = "zip_make_request"
    /\ \E t \in ZipTransport(RaceZip[p]) :
          /\ transportLog' =
                Append(transportLog,
                       [key |-> RaceKey(p),
                        sent |-> [url |-> RaceKey(p), params |-> <<>>],
                        result |-> t.kind])
          /\ IF t.kind = "failure"
             THEN /\ pc' = [pc EXCEPT ![p] = "done"]
                  /\ loaded' = [loaded EXCEPT ![p].outcome = "raised"]
             ELSE /\ pc' = [pc EXCEPT ![p] = "save_cache"]
                  /\ loaded' = [loaded EXCEPT ![p].CACHE_DICT =
                                   JObject((RaceKey(p) :> t.doc) @@ loaded[p].CACHE_DICT.m)]
    /\ UNCHANGED <<cacheFile, cacheFile0, last, keyVars, normVars, tableVars, appVars>>

\* save_cache(CACHE_DICT), then the return.
ProcSaveCache(p) ==
    /\ pc[p] = "save_cache"
    /\ cacheFile' = save_cache(loaded[p].CACHE_DICT.m)
    /\ pc' = [pc EXCEPT ![p] = "done"]
    /\ loaded' = [loaded EXCEPT ![p].over = cacheFile, ![p].outcome = "saved"]
    /\ UNCHANGED <<cacheFile0, transportLog, last, keyVars, normVars, tableVars,
                   appVars>>

InitRace ==
    /\ pc = [p \in Procs |-> "open_cache"]
    /\ loaded = [p \in Procs |-> NoLoad]

NextRace ==
    \E p \in Procs : ProcOpenCache(p) \/ ProcMakeRequest(p) \/ ProcSaveCache(p)

\* The call of p fetched a document and saved its cache.
Saved(p) == pc[p] = "done" /\ loaded[p].outcome = "saved"

\* C14: when both processes have fetched and saved, the file lacks the
\* entry of p exactly when the other process read the file before p saved
\* and wrote it after: its save put back the cache it had loaded.
C14_LostWriteWhenCallsOverlap ==
    \A p \in Procs :
        (Saved(p) /\ Saved(Other(p))) =>
            (~Contains(cacheFile, RaceKey(p)) <=>
                /\ ~Contains(loaded[Other(p)].opened, RaceKey(p))
                /\ Contains(loaded[Other(p)].over, RaceKey(p)))

\* C14 witness: both calls have completed, both saved, and the file holds
\* the entry of process 2 only.
C14_Witness ==
    /\ Saved(1) /\ Saved(2)
    /\ ~Contains(cacheFile, RaceKey(1))
    /\ Contains(cacheFile, RaceKey(2))

(***************************************************************************)
(* Specifications                                                          *)
(***************************************************************************)

\* The parts of the state a specification does not use.
IdleKey ==
    /\ keyArgs = [baseurl |-> <<>>, params |-> <<>>, called |-> TRUE]
    /\ keyOut = <<>>

IdleNorm ==
    /\ normOp = "idle"
    /\ normIn = JNull
    /\ normOut = Raised("")

IdleCache ==
    /\ cacheFile = FileMissing
    /\ cacheFile0 = FileMissing
    /\ transportLog = <<>>
    /\ last = NoCall

IdleApp ==
    /\ tables = {}
    /\ handled = NoRequest

IdleRace ==
    /\ pc = <<>>
    /\ loaded = <<>>

\* The process serving get-or-fetch calls one after another.
Init == IdleKey /\ IdleNorm /\ InitTable /\ InitCache /\ IdleApp /\ IdleRace

Next == ZipMakeRequestWithCache \/ YelpMakeRequestWithCache

Spec == Init /\ [][Next]_vars

\* One call of construct_unique_key on each parameter mapping.
KeyInit == InitKey /\ IdleNorm /\ InitTable /\ IdleCache /\ IdleApp /\ IdleRace

SpecKey == KeyInit /\ [][NextKey]_vars

\* One call of a parser on each document.
NormInit == IdleKey /\ InitNorm /\ InitTable /\ IdleCache /\ IdleApp /\ IdleRace

SpecNorm == NormInit /\ [][NextNorm]_vars

\* The Flask server handling GET / and POST /results requests.
AppInit == IdleKey /\ IdleNorm /\ InitTable /\ InitCache /\ InitApp /\ IdleRace

SpecApp == AppInit /\ [][NextApp]_vars

\* Two processes, one get-or-fetch call each, on one cache file.
RaceInit == IdleKey /\ IdleNorm /\ InitTable /\ InitCache /\ IdleApp /\ InitRace

SpecRace == RaceInit /\ [][NextRace]_vars

\* A connection executing insert_zip statements.
TableInit == IdleKey /\ IdleNorm /\ InitTable /\ IdleCache /\ IdleApp /\ IdleRace

SpecTable == TableInit /\ [][NextTable]_vars

====
